---- MODULE Spec2Model ----
(***************************************************************************)
(* Model of the Avail funnel of paima-engine                               *)
(* (packages/engine/paima-funnel/src/funnels/avail/funnel.ts).             *)
(*                                                                         *)
(* The funnel wraps a base funnel of primary-chain blocks and attaches to  *)
(* every primary block the data submitted on a secondary (Avail) chain,    *)
(* correlating the two chains by time: a secondary header's logical time   *)
(* is slot * 20.                                                           *)
(*                                                                         *)
(* Slots are JS numbers.  The model holds a slot as the integer 2 * slot,  *)
(* so that logical times that are odd multiples of 10 (90, 110, ...) are   *)
(* values a header can have; LogicalTime computes slot * 20 exactly.       *)
(* maxSlot and lastMaxSlot are quotients by 20 in the source and are only  *)
(* ever compared after being multiplied by 20 again, or against a slot;    *)
(* the model keeps them multiplied by 20 (x / 20 * 20 = x is exact in      *)
(* IEEE doubles for the integers used here).                               *)
(***************************************************************************)
EXTENDS Integers, Sequences, FiniteSets, TLC

\* ------------------------------------------------------------------ bounds

\* Number of blocks of each secondary chain (block numbers 1..MaxSec).
MaxSec == 8

\* Number of primary blocks the base funnel can deliver.
NumPrim == 3

\* Largest batch the base funnel returns from one readData.
MaxBatch == 2

\* Number of blocks the secondary chains have finalized when the process starts.
FirstFinalized == 4

\* ------------------------------------------------------- program constants

\* One slot lasts 20 seconds (slot * 20).
SlotSeconds == 20

\* The startingBlockHeight handed to recoverState: the first primary block
\* of the sync phase.
StartHeight == 10

\* ---------------------------------------------------------------- helpers

Max(a, b) == IF a >= b THEN a ELSE b

Min(a, b) == IF a <= b THEN a ELSE b

Last(s) == s[Len(s)]

\* lastBlock: undefined
NoBlock == 0 - 1

\* latestBlock: undefined
NoHeader == [number |-> 0, slot |-> 0]

\* no row in the table of processed heights
NoRow == 0 - 1

\* The networks of the configuration; "avail2" is only configured in SpecTwo.
Networks == {"avail", "avail2"}

\* The only key under which the funnel stores its cache entry.
SYMBOL == "AvailFunnelStartingSlot"

\* slot * 20, for a slot held doubled
LogicalTime(slot) == (slot * SlotSeconds) \div 2

\* ------------------------------------------------------------ environment

VARIABLES
    primTs,               \* primary chain: block number -> timestamp (web3.eth.getBlock)
    slotOf,               \* secondary chains: network -> block number -> slot of the header
    lcData,               \* light client: network -> block number -> -1 (not 200) or the number of data transactions
    dbHeight,             \* network -> persisted height of the last processed block, or NoRow
    finalized,            \* network -> number of the finalized head
    networks,             \* the networks configured as Avail funnels
    delay,                \* config.delay
    confirmationDepth,    \* config.confirmationDepth
    funnelBlockGroupSize  \* config.funnelBlockGroupSize

\* -------------------------------------------------------------- the program

VARIABLES
    hasEntry,                \* cacheEntries[SYMBOL] exists
    initialized,             \* the entry's state is set
    api,                     \* state.api: the network the client is connected to
    startingBlockHeight,     \* state.startingBlockHeight
    lastBlock,               \* state.lastBlock
    lastMaxSlot,             \* state.lastMaxSlot, times 20
    bufferedChainData,       \* state.bufferedChainData
    timestampToBlockNumber,  \* state.timestampToBlockNumber
    latestBlock,             \* state.latestBlock
    funnels,                 \* chainName of every AvailFunnel instance created
    pc,                      \* position of the running readData: "idle", "loop", "wait"
    self,                    \* chainName of the funnel whose readData is running
    chainData,               \* readData's local chainData
    headers                  \* readData's local headers

\* ------------------------------------------------- the caller and its record

VARIABLES
    nextHeight,   \* the height the caller asks next
    emitted,      \* every block readData returned, in the order returned
    obs,          \* what the last operation was given, asked and returned
    bootstraps,   \* how many times each network's recoverState ran the bootstrap
    finishedFrom, \* network -> the least `from` readPresyncData answered FINISHED to, or NoRow
    run           \* the run of readData so far: the first resume cursor, the numbers of
                  \* the headers fetched, the blocks asked of the light client in all
                  \* rounds and in the rounds before the last

envVars == <<primTs, slotOf, lcData, dbHeight, networks, delay, confirmationDepth,
             funnelBlockGroupSize>>

stateVars == <<hasEntry, initialized, api, startingBlockHeight, lastBlock, lastMaxSlot,
               bufferedChainData, timestampToBlockNumber, latestBlock>>

callVars == <<pc, self, chainData, headers>>

vars == <<envVars, finalized, stateVars, funnels, callVars, nextHeight, emitted, obs,
          bootstraps, finishedFrom, run>>

\* ----------------------------------------------------------- pure functions

applyDelay(baseTimestamp) == Max(baseTimestamp - delay, 0)

\* One block as the base funnel delivers it.
BaseDatums(n) ==
    IF n = StartHeight + 1
    THEN <<[network |-> "base", blockNumber |-> n, idx |-> 1]>>
    ELSE <<>>

BaseBlock(n) ==
    [blockNumber |-> n, timestamp |-> primTs[n], extensionDatums |-> BaseDatums(n)]

\* baseFunnel.readData(blockHeight) returning k blocks
BaseReadData(blockHeight, k) == [i \in 1..k |-> BaseBlock(blockHeight + i - 1)]

LastPrim == StartHeight + NumPrim - 1

Header(net, bn) == [number |-> bn, slot |-> slotOf[net][bn]]

\* The binary search with the comparison < in place of <=.
RECURSIVE SearchStrictly(_, _, _, _)
SearchStrictly(net, low, high, targetTimestamp) ==
    IF low < high
    THEN LET mid == (low + high) \div 2
         IN  IF LogicalTime(slotOf[net][mid]) < targetTimestamp
             THEN SearchStrictly(net, mid + 1, high, targetTimestamp)
             ELSE SearchStrictly(net, low, mid, targetTimestamp)
    ELSE low

\* The loop of findBlockByTimestamp.
RECURSIVE Search(_, _, _, _)
Search(net, low, high, targetTimestamp) ==
    IF low < high
    THEN LET mid == (low + high) \div 2
         IN  IF LogicalTime(slotOf[net][mid]) <= targetTimestamp
             THEN Search(net, mid + 1, high, targetTimestamp)
             ELSE Search(net, low, mid, targetTimestamp)
    ELSE low

findBlockByTimestamp(net, targetTimestamp) ==
    Search(net, 1, finalized[net] + 1, targetTimestamp)

\* getMultipleHeaderData beginning one block after `from`.
GetMultipleHeaderDataSkipping(net, from, to) ==
    [i \in 1..Max(to - from - 1, 0) |-> Header(net, from + i)]

\* The headers of the blocks from `from` up to, and not including, `to`.
getMultipleHeaderData(net, from, to) ==
    [i \in 1..Max(to - from, 0) |-> Header(net, from + i - 1)]

RECURSIVE UpperBoundFrom(_, _, _)
UpperBoundFrom(index, i, maxTimestamp) ==
    IF i < 1 THEN 0
    ELSE IF maxTimestamp >= index[i][1] THEN index[i][2]
    ELSE UpperBoundFrom(index, i - 1, maxTimestamp)

\* 0 stands for undefined: the caller only tests the result with ||
getUpperBoundBlock(index, maxTimestamp) == UpperBoundFrom(index, Len(index), maxTimestamp)

Datum(net, bn, i) == [network |-> net, blockNumber |-> bn, idx |-> i]

Response(net, curr) == IF curr \in DOMAIN lcData[net] THEN lcData[net][curr] ELSE 0 - 1

\* getSubmittedData that ends at the first response that is not 200.
RECURSIVE SubmittedUntilError(_, _, _)
SubmittedUntilError(net, curr, to) ==
    IF curr > to THEN <<>>
    ELSE LET k == Response(net, curr)
             rest == SubmittedUntilError(net, curr + 1, to)
         IN  IF k > 0
             THEN <<[blockNumber |-> curr,
                     extensionDatums |-> [i \in 1..k |-> Datum(net, curr, i)]]>> \o rest
             ELSE IF k < 0 THEN <<>> ELSE rest

RECURSIVE SubmittedFrom(_, _, _)
SubmittedFrom(net, curr, to) ==
    IF curr > to THEN <<>>
    ELSE LET k == Response(net, curr)
             rest == SubmittedFrom(net, curr + 1, to)
         IN  IF k > 0
             THEN <<[blockNumber |-> curr,
                     extensionDatums |-> [i \in 1..k |-> Datum(net, curr, i)]]>> \o rest
             ELSE rest

getSubmittedData(net, from, to) == SubmittedFrom(net, from, to)

HasDatums(r) == "extensionDatums" \in DOMAIN r

WithDatums(blockData, d) ==
    [blockNumber |-> blockData.blockNumber, timestamp |-> blockData.timestamp,
     extensionDatums |-> d]

\* The merge of one block that replaces the block's extension data by the
\* record's.
ComposeOneReplacing(blockData, cdeData) ==
    LET matching == SelectSeq(cdeData, LAMBDA r : r.blockNumber = blockData.blockNumber)
    IN  IF matching = <<>> THEN blockData
        ELSE WithDatums(blockData, matching[1].extensionDatums)

ComposeOne(blockData, cdeData) ==
    LET matching == SelectSeq(cdeData, LAMBDA r : r.blockNumber = blockData.blockNumber)
    IN  IF matching = <<>> THEN blockData
        ELSE LET matchingData == matching[1]
             IN  IF HasDatums(blockData)
                 THEN IF HasDatums(matchingData)
                      THEN WithDatums(blockData,
                               blockData.extensionDatums \o matchingData.extensionDatums)
                      ELSE blockData
                 ELSE IF HasDatums(matchingData)
                      THEN WithDatums(blockData, matchingData.extensionDatums)
                      ELSE blockData

composeChainData(baseChainData, cdeData) ==
    [i \in 1..Len(baseChainData) |-> ComposeOne(baseChainData[i], cdeData)]

\* The walk with the other reading of the boundary: a secondary block goes to
\* the last primary block of the batch whose delayed timestamp is <= its
\* logical time.
RECURSIVE MappingBefore(_, _, _, _, _)
MappingBefore(index, i, batch, currIndex, acc) ==
    IF i > Len(index) THEN acc
    ELSE LET before == {j \in 1..Len(batch) : applyDelay(batch[j].timestamp) <= index[i][1]}
         IN  IF before = {} THEN MappingBefore(index, i + 1, batch, currIndex, acc)
             ELSE MappingBefore(index, i + 1, batch, currIndex,
                      [n \in DOMAIN acc \cup {index[i][2]} |->
                          IF n = index[i][2]
                          THEN batch[CHOOSE j \in before : \A k \in before : k <= j].blockNumber
                          ELSE acc[n]])

\* The walk with the comparison > in place of >=.
RECURSIVE MappingStrictly(_, _, _, _, _)
MappingStrictly(index, i, batch, currIndex, acc) ==
    IF i > Len(index) THEN acc
    ELSE IF currIndex > Len(batch) THEN MappingStrictly(index, i + 1, batch, currIndex, acc)
    ELSE IF applyDelay(batch[currIndex].timestamp) > index[i][1]
    THEN MappingStrictly(index, i + 1, batch, currIndex,
             [n \in DOMAIN acc \cup {index[i][2]} |->
                 IF n = index[i][2] THEN batch[currIndex].blockNumber ELSE acc[n]])
    ELSE MappingStrictly(index, i, batch, currIndex + 1, acc)

\* The walk of readData that maps secondary to primary block numbers: i is the
\* position in the index, currIndex the position in the batch.
RECURSIVE MappingFrom(_, _, _, _, _)
MappingFrom(index, i, batch, currIndex, acc) ==
    IF i > Len(index) THEN acc
    ELSE IF currIndex > Len(batch) THEN MappingFrom(index, i + 1, batch, currIndex, acc)
    ELSE IF applyDelay(batch[currIndex].timestamp) >= index[i][1]
    THEN MappingFrom(index, i + 1, batch, currIndex,
             [n \in DOMAIN acc \cup {index[i][2]} |->
                 IF n = index[i][2] THEN batch[currIndex].blockNumber ELSE acc[n]])
    ELSE MappingFrom(index, i, batch, currIndex + 1, acc)

availToMainchainBlockHeightMapping(index, batch) == MappingFrom(index, 1, batch, 1, <<>>)

\* mapping[blockNumber], 0 when the mapping has no such key (undefined)
Remap(mapping, records) ==
    [i \in 1..Len(records) |->
        [blockNumber |-> IF records[i].blockNumber \in DOMAIN mapping
                         THEN mapping[records[i].blockNumber] ELSE 0,
         extensionDatums |-> records[i].extensionDatums]]

\* The trim that keeps the head of the index and removes the pair after it.
TrimAfterHead(index, boundary) ==
    IF index = <<>> THEN index
    ELSE IF index[1][1] <= boundary /\ Len(index) >= 2
    THEN <<index[1]>> \o Tail(Tail(index))
    ELSE index

\* The loop of readData that removes from the head of the index the pairs
\* whose time is <= the boundary.
RECURSIVE Trim(_, _)
Trim(index, boundary) ==
    IF index = <<>> THEN index
    ELSE IF index[1][1] <= boundary THEN Trim(Tail(index), boundary)
    ELSE index

\* ------------------------------------------------------- initial states

\* The regular primary chain: the block before StartHeight has timestamp 80
\* and every block comes 20 seconds after the one before (100, 120, 140, ...).
RegularStream == [n \in (StartHeight - 1)..LastPrim |-> 100 + 20 * (n - StartHeight)]

\* Timestamps of the primary blocks: the regular chain, or the regular chain
\* with the timestamp of one block set to 100 or 120, which makes two blocks
\* share a timestamp or a block older than the one before it.
PrimStreams ==
    {RegularStream}
    \cup {[RegularStream EXCEPT ![n] = t] : n \in StartHeight..LastPrim, t \in {100, 120}}

\* Secondary chains, as doubled slots: logical times 10, 30, 50, ... (one block
\* every slot), 60, 80, 80, 100, 100, ... (two blocks share a logical time) and
\* 60, 100, 140, ... (a block every other slot), and 80, 120, 160, ... (a
\* chain that begins after the block before the first primary block, so that
\* the resume cursor can be 0).
SecChains ==
    {[n \in 1..MaxSec |-> 2 * n - 1],
     [n \in 1..MaxSec |-> 2 * (n \div 2) + 6],
     [n \in 1..MaxSec |-> 4 * n + 2],
     [n \in 1..MaxSec |-> 4 * n + 4]}

\* The chain of the second network.
SecondChain == [n \in 1..MaxSec |-> 2 * n + 9]

\* Answers of the light client: one data transaction in every block, or by
\* turns not 200, none, one, two.
LcPatterns ==
    {[n \in 0..MaxSec |-> 1],
     [n \in 0..MaxSec |-> (n % 4) - 1]}

\* The configurations of the funnel.
Configs ==
    {[delay |-> 0, confirmationDepth |-> 0, funnelBlockGroupSize |-> 3],
     [delay |-> 0, confirmationDepth |-> 1, funnelBlockGroupSize |-> 2],
     [delay |-> 20, confirmationDepth |-> 0, funnelBlockGroupSize |-> 2],
     [delay |-> 20, confirmationDepth |-> 1, funnelBlockGroupSize |-> 3]}

DbHeights == {NoRow, 5}

InitProgram ==
    /\ hasEntry = FALSE
    /\ initialized = FALSE
    /\ api = "avail"
    /\ startingBlockHeight = 0
    /\ lastBlock = NoBlock
    /\ lastMaxSlot = 0
    /\ bufferedChainData = <<>>
    /\ timestampToBlockNumber = <<>>
    /\ latestBlock = NoHeader
    /\ funnels = {}
    /\ pc = "idle"
    /\ self = "avail"
    /\ headers = <<>>
    /\ nextHeight = StartHeight
    /\ emitted = <<>>
    /\ obs = [op |-> "none"]
    /\ bootstraps = [c \in Networks |-> 0]
    /\ finishedFrom = [c \in Networks |-> NoRow]
    /\ run = [cursor |-> NoBlock, fetched |-> <<>>, asked |-> {}, askedBefore |-> {},
             indexed |-> {}]

Init ==
    /\ networks = {"avail"}
    /\ primTs \in PrimStreams
    /\ \E chain \in SecChains : slotOf = [c \in Networks |-> chain]
    /\ \E pattern \in LcPatterns : lcData = [c \in Networks |-> pattern]
    /\ \E h \in DbHeights : dbHeight = [c \in Networks |-> h]
    /\ \E config \in Configs :
          /\ delay = config.delay
          /\ confirmationDepth = config.confirmationDepth
          /\ funnelBlockGroupSize = config.funnelBlockGroupSize
    /\ finalized = [c \in Networks |-> FirstFinalized]
    /\ chainData = <<>>
    /\ InitProgram

\* ---------------------------------------------------------------- actions

\* The secondary chain of network c finalizes one more block.
Finalize(c) ==
    /\ c \in networks
    /\ finalized[c] < MaxSec
    /\ finalized' = [finalized EXCEPT ![c] = @ + 1]
    /\ UNCHANGED <<run, envVars, stateVars, funnels, callVars, nextHeight, emitted, obs,
                   bootstraps, finishedFrom>>

\* AvailFunnelCacheEntry.getState() of an entry that was not initialized raises
\* an error.
EntryGetStateThrows == ~initialized

\* getState() that does not test what it read.
GetStateNeverThrows == FALSE

\* AvailFunnel.getState() throws: no entry under SYMBOL, or an entry without a
\* state.
GetStateThrows == ~hasEntry \/ EntryGetStateThrows

\* The head refresh without the confirmation depth.
UpdatedLatestBlockUndelayed(client) == Header(client, finalized[client])

\* updateLatestBlock: the header the state's client reports confirmationDepth
\* blocks behind its finalized head.
UpdatedLatestBlock(client) == Header(client, Max(finalized[client] - confirmationDepth, 1))

\* AvailFunnelCacheEntry.initialize(api, startingBlockHeight): the state holds
\* the client and the mapped starting height, no cursor, and an empty buffer
\* and index.
initialize(client, mappedStartingBlockHeight) ==
    /\ initialized' = TRUE
    /\ api' = client
    /\ startingBlockHeight' = mappedStartingBlockHeight
    /\ lastBlock' = NoBlock
    /\ lastMaxSlot' = 0
    /\ bufferedChainData' = <<>>
    /\ timestampToBlockNumber' = <<>>

\* The steps of the bootstrap of recoverState that may fail: getBlock of the
\* starting primary block, createApi, findBlockByTimestamp.
BootstrapSteps == {"getBlock", "createApi", "findBlockByTimestamp"}

\* A bootstrap that stores the client in the state before the search for the
\* mapped starting height, and then fails at `step`.
RecoverStateFailsInitialized(c, step) ==
    /\ pc = "idle"
    /\ c \in networks
    /\ step \in BootstrapSteps \cup {"updateLatestBlock"}
    /\ step \in BootstrapSteps => ~initialized
    /\ hasEntry' = TRUE
    /\ IF ~initialized
       THEN /\ initialize(c, 0)
            /\ bootstraps' = [bootstraps EXCEPT ![c] = @ + 1]
       ELSE UNCHANGED <<initialized, api, startingBlockHeight, lastBlock, lastMaxSlot,
                        bufferedChainData, timestampToBlockNumber, bootstraps>>
    /\ obs' = [op |-> "recoverState", net |-> c, bootstrapped |-> FALSE, threw |-> step]
    /\ UNCHANGED <<run, envVars, finalized, latestBlock, funnels, callVars, nextHeight, emitted,
                   finishedFrom>>

\* AvailFunnel.recoverState for network c when `step` throws: a step of the
\* bootstrap, which runs only on an uninitialized entry, or the head refresh
\* that follows it.  The entry was stored before the bootstrap began; the
\* error leaves recoverState and wrapToAvailFunnel, and no funnel is returned.
RecoverStateFails(c, step) ==
    /\ pc = "idle"
    /\ c \in networks
    /\ step \in BootstrapSteps \cup {"updateLatestBlock"}
    /\ step \in BootstrapSteps => ~initialized
    /\ hasEntry' = TRUE
    /\ IF step = "updateLatestBlock" /\ ~initialized
       THEN /\ initialize(c, findBlockByTimestamp(c, applyDelay(primTs[StartHeight])))
            /\ bootstraps' = [bootstraps EXCEPT ![c] = @ + 1]
       ELSE UNCHANGED <<initialized, api, startingBlockHeight, lastBlock, lastMaxSlot,
                        bufferedChainData, timestampToBlockNumber, bootstraps>>
    /\ obs' = [op |-> "recoverState", net |-> c, bootstrapped |-> step = "updateLatestBlock" /\ ~initialized,
               threw |-> step]
    /\ UNCHANGED <<run, envVars, finalized, latestBlock, funnels, callVars, nextHeight, emitted,
                   finishedFrom>>

\* recoverState that runs the bootstrap whether or not the state is initialized.
RecoverStateAlways(c) ==
    /\ pc = "idle"
    /\ c \in networks
    /\ hasEntry' = TRUE
    /\ initialize(c, findBlockByTimestamp(c, applyDelay(primTs[StartHeight])))
    /\ bootstraps' = [bootstraps EXCEPT ![c] = @ + 1]
    /\ latestBlock' = UpdatedLatestBlock(api')
    /\ funnels' = funnels \cup {c}
    /\ obs' = [op |-> "recoverState", net |-> c, bootstrapped |-> TRUE]
    /\ UNCHANGED <<run, envVars, finalized, callVars, nextHeight, emitted, finishedFrom>>

\* AvailFunnel.recoverState for the funnel of network c
RecoverState(c) ==
    /\ pc = "idle"
    /\ c \in networks
    /\ hasEntry' = TRUE
    /\ IF ~initialized
       THEN /\ initialize(c, findBlockByTimestamp(c, applyDelay(primTs[StartHeight])))
            /\ bootstraps' = [bootstraps EXCEPT ![c] = @ + 1]
       ELSE UNCHANGED <<initialized, api, startingBlockHeight, lastBlock, lastMaxSlot,
                        bufferedChainData, timestampToBlockNumber, bootstraps>>
    /\ latestBlock' = UpdatedLatestBlock(api')
    /\ funnels' = funnels \cup {c}
    /\ obs' = [op |-> "recoverState", net |-> c, bootstrapped |-> ~initialized]
    /\ UNCHANGED <<run, envVars, finalized, callVars, nextHeight, emitted, finishedFrom>>

\* The caller of readData receives `batch`.
Return(batch) ==
    /\ pc' = "idle"
    /\ chainData' = <<>>
    /\ headers' = <<>>
    /\ emitted' = emitted \o batch
    /\ nextHeight' = IF batch = <<>> THEN nextHeight ELSE Last(batch).blockNumber + 1

\* The resume cursor with the bootstrap value as the fallback.
DeterminedFromBootstrap(c, batch) ==
    IF lastBlock = NoBlock \/ lastBlock = 0
    THEN IF dbHeight[c] # NoRow /\ dbHeight[c] >= startingBlockHeight - 1
         THEN dbHeight[c]
         ELSE startingBlockHeight
    ELSE lastBlock

\* The resume cursor of readData, determined when state.lastBlock is not set.
DeterminedLastBlock(c, batch) ==
    IF lastBlock = NoBlock \/ lastBlock = 0
    THEN IF dbHeight[c] # NoRow
         THEN Max(dbHeight[c], startingBlockHeight - 1)
         ELSE findBlockByTimestamp(api, applyDelay(primTs[batch[1].blockNumber - 1])) - 1
    ELSE lastBlock

\* The blocks of the buffer that pass the filter of readData.
Filtered(buffer, latestHeaderTimestamp) ==
    SelectSeq(buffer, LAMBDA data : applyDelay(data.timestamp) <= latestHeaderTimestamp)

\* The shift that removes a block from the front also when no block passed.
ShiftedAtLeastOne(buffer, batch) == SubSeq(buffer, Max(Len(batch), 1) + 1, Len(buffer))

\* chainData.forEach(_ => bufferedChainData.shift())
Shifted(buffer, batch) == SubSeq(buffer, Len(batch) + 1, Len(buffer))

\* AvailFunnel.readData of the funnel of network c, up to the header loop; the
\* base funnel, when asked, returns k blocks.
ReadDataBegin(c, k) ==
    /\ pc = "idle"
    /\ c \in funnels
    /\ ~GetStateThrows
    /\ IF bufferedChainData = <<>>
       THEN k = Min(MaxBatch, LastPrim - nextHeight + 1) \/ (k >= 1 /\ nextHeight + k - 1 <= LastPrim)
       ELSE k = 0
    /\ LET buffer == IF bufferedChainData = <<>>
                     THEN BaseReadData(nextHeight, k)
                     ELSE bufferedChainData
           latest == UpdatedLatestBlock(api)
           latestHeaderTimestamp == LogicalTime(latest.slot)
           batch == Filtered(buffer, latestHeaderTimestamp)
       IN  /\ latestBlock' = latest
           /\ bufferedChainData' = Shifted(buffer, batch)
           /\ self' = c
           /\ IF batch = <<>>
              THEN /\ Return(batch)
                   /\ lastBlock' = lastBlock
                   /\ run' = run
                   /\ obs' = [op |-> "readData", net |-> c, done |-> TRUE,
                              buffer |-> buffer, headTime |-> latestHeaderTimestamp,
                              batch |-> batch, asked |-> {}, fetched |-> <<>>, remapped |-> <<>>,
                              determined |-> FALSE, boundary |-> lastMaxSlot,
                              headers |-> <<>>, index |-> <<>>, mapping |-> <<>>,
                              merged |-> FALSE]
              ELSE /\ pc' = "loop"
                   /\ chainData' = batch
                   /\ headers' = <<>>
                   /\ lastBlock' = DeterminedLastBlock(c, batch)
                   /\ run' = IF run.cursor = NoBlock
                             THEN [run EXCEPT !.cursor = DeterminedLastBlock(c, batch)]
                             ELSE run
                   /\ obs' = [op |-> "readData", net |-> c, done |-> FALSE,
                              buffer |-> buffer, headTime |-> latestHeaderTimestamp,
                              batch |-> batch, asked |-> {}, fetched |-> <<>>, remapped |-> <<>>,
                              determined |-> (lastBlock = NoBlock \/ lastBlock = 0),
                              boundary |-> lastMaxSlot,
                              headers |-> <<>>, index |-> <<>>, mapping |-> <<>>,
                              merged |-> FALSE]
                   /\ UNCHANGED <<emitted, nextHeight>>
    /\ UNCHANGED <<envVars, finalized, hasEntry, initialized, api, startingBlockHeight,
                   lastMaxSlot, timestampToBlockNumber, funnels, bootstraps, finishedFrom>>

\* readData from the end of the header loop to its return: the index, the
\* secondary range, the submitted data and the merge.  `hs` are the headers
\* fetched in this call.
Correlated(hs) ==
    LET maxSlot == applyDelay(Last(chainData).timestamp)
        appended == timestampToBlockNumber \o
                        [i \in 1..Len(hs) |-> <<LogicalTime(hs[i].slot), hs[i].number>>]
        index == Trim(appended, lastMaxSlot)
        mapping == availToMainchainBlockHeightMapping(index, chainData)
        fromBlock == index[1][2]
        upper == getUpperBoundBlock(index, maxSlot)
        toBlock == IF upper # 0 THEN upper ELSE fromBlock
        unmerged == [index |-> index, lastMaxSlot |-> maxSlot, batch |-> chainData,
                     asked |-> {}, fetched |-> <<>>, remapped |-> <<>>,
                     mapping |-> mapping, merged |-> FALSE]
    IN  IF index = <<>>
        THEN [index |-> index, lastMaxSlot |-> lastMaxSlot, batch |-> chainData,
              asked |-> {}, fetched |-> <<>>, remapped |-> <<>>,
              mapping |-> <<>>, merged |-> FALSE]
        ELSE IF index[1][1] > maxSlot THEN unmerged
        ELSE IF toBlock = 0 \/ fromBlock < 0 \/ toBlock < fromBlock THEN unmerged
        ELSE LET availData == getSubmittedData(self, fromBlock, toBlock)
             IN  [index |-> index, lastMaxSlot |-> maxSlot,
                  batch |-> composeChainData(chainData, Remap(mapping, availData)),
                  asked |-> fromBlock..toBlock, fetched |-> availData,
                  remapped |-> Remap(mapping, availData),
                  mapping |-> mapping, merged |-> TRUE]

\* The blocks of the buffer that are the objects composeChainData changed.
Aliased(buffer, batch) ==
    [i \in 1..Len(buffer) |->
        IF \E j \in 1..Len(batch) : batch[j].blockNumber = buffer[i].blockNumber
        THEN batch[CHOOSE j \in 1..Len(batch) : batch[j].blockNumber = buffer[i].blockNumber]
        ELSE buffer[i]]

\* One turn of the header loop of readData and, when the loop ends, the rest
\* of readData.
FetchChunk ==
    /\ pc = "loop"
    /\ LET to == Min(latestBlock.number, lastBlock + funnelBlockGroupSize)
           availHeaders == getMultipleHeaderData(api, lastBlock + 1, to)
           hs == headers \o availHeaders
           maxSlot == applyDelay(Last(chainData).timestamp)
       IN  /\ lastBlock' = IF hs # <<>> THEN Last(hs).number ELSE lastBlock
           /\ IF hs # <<>> /\ LogicalTime(Last(hs).slot) >= maxSlot
              THEN LET r == Correlated(hs)
                   IN  /\ timestampToBlockNumber' = r.index
                       /\ lastMaxSlot' = r.lastMaxSlot
                       /\ latestBlock' = Last(hs)
                       /\ bufferedChainData' = Aliased(bufferedChainData, r.batch)
                       /\ Return(r.batch)
                       /\ obs' = [obs EXCEPT !.done = TRUE, !.batch = r.batch,
                                             !.asked = r.asked, !.fetched = r.fetched,
                                             !.remapped = r.remapped, !.headers = hs,
                                             !.index = r.index, !.mapping = r.mapping,
                                             !.merged = r.merged]
                       /\ run' = [run EXCEPT
                                     !.fetched = @ \o [i \in 1..Len(availHeaders) |->
                                                          availHeaders[i].number],
                                     !.askedBefore = run.asked,
                                     !.indexed = @ \cup {hs[i].number : i \in 1..Len(hs)},
                                     !.asked = @ \cup r.asked]
              ELSE /\ headers' = hs
                   /\ run' = [run EXCEPT
                                 !.fetched = @ \o [i \in 1..Len(availHeaders) |->
                                                      availHeaders[i].number]]
                   /\ pc' = IF to # latestBlock.number THEN "loop" ELSE "wait"
                   /\ UNCHANGED <<timestampToBlockNumber, lastMaxSlot, latestBlock,
                                  bufferedChainData, chainData, emitted, nextHeight, obs>>
    /\ UNCHANGED <<envVars, finalized, hasEntry, initialized, api, startingBlockHeight,
                   funnels, self, bootstraps, finishedFrom>>

\* One turn of the wait of readData for the secondary head to advance.
WaitPoll ==
    /\ pc = "wait"
    /\ LET latest == UpdatedLatestBlock(api)
       IN  /\ pc' = IF latest.number = latestBlock.number THEN "wait" ELSE "loop"
           /\ latestBlock' = latest
    /\ UNCHANGED <<run, envVars, finalized, hasEntry, initialized, api, startingBlockHeight,
                   lastBlock, lastMaxSlot, bufferedChainData, timestampToBlockNumber,
                   funnels, self, chainData, headers, nextHeight, emitted, obs,
                   bootstraps, finishedFrom>>

\* The ranges the caller of readPresyncData asks.
PresyncFroms == {0 - 1, 0} \cup (FirstFinalized - 1)..(FirstFinalized + 3)

PresyncWidths == {0, MaxSec + 2}

\* The test of readPresyncData with the requested upper bound in place of the
\* lower one.
PresyncFinishedByTo(fromBlock, toBlock, startBlockHeight) == toBlock >= startBlockHeight

\* The test of readPresyncData for a range that starts at or after the mapped
\* starting height.
PresyncFinished(fromBlock, toBlock, startBlockHeight) == fromBlock >= startBlockHeight

\* The range of readPresyncData with the upper bound left as requested.
UnclampedRange(fromBlock, toBlock, startBlockHeight) ==
    [fromBlock |-> Max(fromBlock, 0), toBlock |-> toBlock]

\* The range readPresyncData asks the light client for.
ClampedRange(fromBlock, toBlock, startBlockHeight) ==
    [fromBlock |-> Max(fromBlock, 0), toBlock |-> Min(toBlock, startBlockHeight - 1)]

\* AvailFunnel.readPresyncData of the funnel of network c; args holds an entry
\* {network: c, from, to} when hasArg.  The result is "base" (the answer of the
\* base funnel alone), "finished" (FUNNEL_PRESYNC_FINISHED for c) or "data".
ReadPresyncData(c, hasArg, from, to) ==
    /\ pc = "idle"
    /\ c \in funnels
    /\ hasArg => ~GetStateThrows
    /\ LET startBlockHeight == startingBlockHeight
           toBlock == ClampedRange(from, to, startBlockHeight).toBlock
           fromBlock == ClampedRange(from, to, startBlockHeight).fromBlock
           data == getSubmittedData(c, fromBlock, toBlock)
           answer(result, asked, records) ==
               [op |-> "readPresyncData", net |-> c, hasArg |-> hasArg, from |-> from,
                to |-> to, result |-> result, asked |-> asked, records |-> records]
       IN  IF ~hasArg
           THEN /\ obs' = answer("base", {}, <<>>)
                /\ UNCHANGED finishedFrom
           ELSE IF PresyncFinished(from, to, startBlockHeight)
           THEN /\ obs' = answer("finished", {}, <<>>)
                /\ finishedFrom' =
                       [finishedFrom EXCEPT ![c] = IF @ = NoRow THEN from ELSE Min(@, from)]
           ELSE IF fromBlock > toBlock
           THEN /\ obs' = answer("base", {}, <<>>)
                /\ UNCHANGED finishedFrom
           ELSE /\ obs' = answer("data", fromBlock..toBlock,
                              [i \in 1..Len(data) |->
                                  [extensionDatums |-> data[i].extensionDatums,
                                   networkType |-> "AVAIL",
                                   network |-> c,
                                   blockNumber |-> data[i].blockNumber]])
                /\ UNCHANGED finishedFrom
    /\ UNCHANGED <<run, envVars, finalized, stateVars, funnels, callVars, nextHeight, emitted,
                   bootstraps>>

\* The sync phase: the process recovers the funnel and polls readData while
\* the secondary chain grows.
Next ==
    \/ \E c \in Networks : Finalize(c)
    \/ \E c \in Networks : RecoverState(c)
    \/ \E c \in Networks, k \in 0..MaxBatch : ReadDataBegin(c, k)
    \/ FetchChunk
    \/ WaitPoll

Spec == Init /\ [][Next]_vars

\* The presync phase, which comes before the first readData: the process
\* recovers the funnel and polls readPresyncData while the secondary chain grows.
NextPresync ==
    \/ \E c \in Networks : Finalize(c)
    \/ \E c \in Networks : RecoverState(c)
    \/ \E c \in Networks, from \in PresyncFroms, width \in PresyncWidths :
          ReadPresyncData(c, TRUE, from, from + width)
    \/ \E c \in Networks : ReadPresyncData(c, FALSE, 0, 0)

\* readPresyncData reads the mapped starting height and the light client only:
\* the presync phase is explored for both timestamps of the starting block, on
\* every secondary chain and light client, with and without a delay.
InitPresync ==
    /\ Init
    /\ funnelBlockGroupSize = 2
    /\ primTs \in {RegularStream, [RegularStream EXCEPT ![StartHeight] = 120]}
    /\ dbHeight = [c \in Networks |-> NoRow]

SpecPresync == InitPresync /\ [][NextPresync]_vars

\* ------------------------------------------------ calls that fail

\* The process on the regular primary chain, with calls of recoverState that
\* fail.
InitRpc ==
    /\ Init
    /\ primTs = RegularStream
    /\ lcData = [c \in Networks |-> [n \in 0..MaxSec |-> 1]]
    /\ confirmationDepth = 0

\* A failing call that also puts lastBlock back to the first resume cursor.
ReadDataFailsResetting ==
    /\ pc \in {"loop", "wait"}
    /\ pc' = "idle"
    /\ headers' = <<>>
    /\ chainData' = <<>>
    /\ lastBlock' = run.cursor
    /\ obs' = [f \in DOMAIN obs \cup {"threw"} |->
                  IF f = "threw" THEN "readData" ELSE obs[f]]
    /\ UNCHANGED <<run, envVars, finalized, hasEntry, initialized, api, startingBlockHeight,
                   lastMaxSlot, latestBlock, bufferedChainData, timestampToBlockNumber,
                   self, funnels, bootstraps, finishedFrom, emitted, nextHeight>>

\* readData fails in the header loop: getMultipleHeaderData, or the head
\* refresh of the wait, raises an error.  The call returns nothing; the batch
\* and the headers of this round are dropped, and the state keeps what the
\* round has written: the shifted buffer and the advanced lastBlock.
ReadDataFails ==
    /\ pc \in {"loop", "wait"}
    /\ pc' = "idle"
    /\ headers' = <<>>
    /\ chainData' = <<>>
    /\ lastBlock' = lastBlock
    /\ obs' = [f \in DOMAIN obs \cup {"threw"} |->
                  IF f = "threw" THEN "readData" ELSE obs[f]]
    /\ UNCHANGED <<run, envVars, finalized, hasEntry, initialized, api, startingBlockHeight,
                   lastMaxSlot, latestBlock, bufferedChainData, timestampToBlockNumber,
                   self, funnels, bootstraps, finishedFrom, emitted, nextHeight>>

NextRpc ==
    \/ Next
    \/ ReadDataFails
    \/ \E c \in Networks, step \in BootstrapSteps \cup {"updateLatestBlock"} :
          RecoverStateFails(c, step)
    \/ \E c \in Networks, from \in {0, FirstFinalized + 2} :
          ReadPresyncData(c, TRUE, from, from + 1)

SpecRpc == InitRpc /\ [][NextRpc]_vars

\* ------------------------------------- calls on a cache without the state

\* How many times the bootstrap runs in a process whose cache is emptied.
MaxBootstraps == 2

\* The owner of sharedData empties cacheManager.cacheEntries between two calls:
\* the entry and its state are gone, the funnels made before remain.
CacheCleared ==
    /\ pc = "idle"
    /\ hasEntry
    /\ bootstraps["avail"] + bootstraps["avail2"] < MaxBootstraps
    /\ hasEntry' = FALSE
    /\ initialized' = FALSE
    /\ api' = "avail"
    /\ startingBlockHeight' = 0
    /\ lastBlock' = NoBlock
    /\ lastMaxSlot' = 0
    /\ bufferedChainData' = <<>>
    /\ timestampToBlockNumber' = <<>>
    /\ latestBlock' = NoHeader
    /\ obs' = [op |-> "clear"]
    /\ UNCHANGED <<run, envVars, finalized, funnels, callVars, nextHeight, emitted, bootstraps,
                   finishedFrom>>

\* AvailFunnel.readData of the funnel of network c when getState() throws, which
\* is its first statement.
ReadDataThrows(c) ==
    /\ pc = "idle"
    /\ c \in funnels
    /\ GetStateThrows
    /\ obs' = [op |-> "readData", net |-> c, done |-> FALSE, threw |-> "getState"]
    /\ UNCHANGED <<run, envVars, finalized, stateVars, funnels, callVars, nextHeight, emitted,
                   bootstraps, finishedFrom>>

\* AvailFunnel.readPresyncData of the funnel of network c, with an entry for c
\* in args, when getState() throws: the base funnel has answered, nothing is
\* returned.
ReadPresyncDataThrows(c, from, to) ==
    /\ pc = "idle"
    /\ c \in funnels
    /\ GetStateThrows
    /\ obs' = [op |-> "readPresyncData", net |-> c, hasArg |-> TRUE, from |-> from,
               to |-> to, result |-> "threw", asked |-> {}, records |-> <<>>,
               threw |-> "getState"]
    /\ UNCHANGED <<run, envVars, finalized, stateVars, funnels, callVars, nextHeight, emitted,
                   bootstraps, finishedFrom>>

\* AvailFunnel.updateLatestBlock of the funnel of network c, called on its own.
UpdateLatestBlock(c) ==
    /\ pc = "idle"
    /\ c \in funnels
    /\ IF GetStateThrows
       THEN /\ obs' = [op |-> "updateLatestBlock", net |-> c, threw |-> "getState"]
            /\ UNCHANGED latestBlock
       ELSE /\ obs' = [op |-> "updateLatestBlock", net |-> c]
            /\ latestBlock' = UpdatedLatestBlock(api)
    /\ UNCHANGED <<run, envVars, finalized, hasEntry, initialized, api, startingBlockHeight,
                   lastBlock, lastMaxSlot, bufferedChainData, timestampToBlockNumber,
                   funnels, callVars, nextHeight, emitted, bootstraps, finishedFrom>>

\* AvailFunnel.latestBlock of the funnel of network c, called on its own.
LatestBlock(c) ==
    /\ pc = "idle"
    /\ c \in funnels
    /\ IF ~hasEntry \/ EntryGetStateThrows \/ latestBlock = NoHeader
       THEN obs' = [op |-> "latestBlock", net |-> c, threw |-> "latestBlock"]
       ELSE obs' = [op |-> "latestBlock", net |-> c, result |-> latestBlock]
    /\ UNCHANGED <<run, envVars, finalized, stateVars, funnels, callVars, nextHeight, emitted,
                   bootstraps, finishedFrom>>

InitUninit ==
    /\ InitRpc
    /\ slotOf = [c \in Networks |-> [n \in 1..MaxSec |-> 2 * n - 1]]
    /\ dbHeight = [c \in Networks |-> NoRow]
    /\ delay = 0

NextUninit ==
    \/ NextRpc
    \/ CacheCleared
    \/ \E c \in Networks : ReadDataThrows(c)
    \/ \E c \in Networks : ReadPresyncDataThrows(c, 0, 1)
    \/ \E c \in Networks : UpdateLatestBlock(c)
    \/ \E c \in Networks : LatestBlock(c)

SpecUninit == InitUninit /\ [][NextUninit]_vars

\* ------------------------------------------------ two secondary networks

\* A process configured with two secondary networks, each with its own chain,
\* client and light client; the primary chain is the regular one.
InitTwo ==
    /\ networks = Networks
    /\ primTs = RegularStream
    /\ slotOf = [c \in Networks |->
                    IF c = "avail" THEN [n \in 1..MaxSec |-> 2 * n - 1] ELSE SecondChain]
    /\ lcData = [c \in Networks |-> [n \in 0..MaxSec |-> 1]]
    /\ dbHeight = [c \in Networks |-> NoRow]
    /\ delay = 0
    /\ confirmationDepth = 0
    /\ funnelBlockGroupSize \in {2, 3}
    /\ finalized = [c \in Networks |-> FirstFinalized]
    /\ chainData = <<>>
    /\ InitProgram

SpecTwo == InitTwo /\ [][Next]_vars

\* ------------------------------------------------ composeChainData alone

MaxBlocks == 2

MaxRecords == 2

\* Extension data a block of the base funnel may already carry: none (the
\* field is absent), an empty list, one datum, two datums.
BaseExtensions(n) ==
    {<<>>, <<[network |-> "base", blockNumber |-> n, idx |-> 1]>>,
     <<[network |-> "base", blockNumber |-> n, idx |-> 1],
       [network |-> "base", blockNumber |-> n, idx |-> 2]>>}

BaseBlocksAt(n) ==
    {[blockNumber |-> n, timestamp |-> 100 + 20 * (n - StartHeight)]}
    \cup {[blockNumber |-> n, timestamp |-> 100 + 20 * (n - StartHeight),
           extensionDatums |-> d] : d \in BaseExtensions(n)}

\* Batches of blocks of consecutive heights from StartHeight on.
RECURSIVE BaseBatches(_)
BaseBatches(len) ==
    IF len = 0 THEN {<<>>}
    ELSE BaseBatches(len - 1)
         \cup {Append(batch, b) : batch \in {x \in BaseBatches(len - 1) : Len(x) = len - 1},
                                  b \in BaseBlocksAt(StartHeight + len - 1)}

\* Records as readData hands them to composeChainData: the data of secondary
\* block 5 or 6 (none, or two datums), remapped to a primary block of the batch
\* or to 0 (no mapping).
CdeRecords ==
    {[blockNumber |-> m, extensionDatums |-> [i \in 1..k |-> Datum("avail", bn, i)]] :
        m \in {0} \cup StartHeight..(StartHeight + 1), bn \in {5, 6}, k \in {0, 2}}

RECURSIVE CdeData(_)
CdeData(len) ==
    IF len = 0 THEN {<<>>}
    ELSE CdeData(len - 1)
         \cup {Append(data, r) : data \in {x \in CdeData(len - 1) : Len(x) = len - 1},
                                 r \in CdeRecords}

InitCompose ==
    /\ networks = {"avail"}
    /\ primTs = RegularStream
    /\ slotOf = [c \in Networks |-> [n \in 1..MaxSec |-> 2 * n - 1]]
    /\ lcData = [c \in Networks |-> [n \in 0..MaxSec |-> 1]]
    /\ dbHeight = [c \in Networks |-> NoRow]
    /\ delay = 0
    /\ confirmationDepth = 0
    /\ funnelBlockGroupSize = 2
    /\ finalized = [c \in Networks |-> FirstFinalized]
    /\ chainData \in BaseBatches(MaxBlocks)
    /\ InitProgram

\* composeChainData(chainData, cdeData), called once on the batch
Compose(cdeData) ==
    /\ obs.op = "none"
    /\ obs' = [op |-> "composeChainData", baseChainData |-> chainData, cdeData |-> cdeData,
               result |-> composeChainData(chainData, cdeData)]
    /\ UNCHANGED <<run, envVars, finalized, stateVars, funnels, callVars, nextHeight, emitted,
                   bootstraps, finishedFrom>>

NextCompose == \E cdeData \in CdeData(MaxRecords) : Compose(cdeData)

SpecCompose == InitCompose /\ [][NextCompose]_vars

\* ------------------------------------------- findBlockByTimestamp alone

\* Chains of n blocks that start at slot 1 (doubled: 2) and whose next block is
\* in the same slot or in the next one.
RECURSIVE ChainsOfLength(_)
ChainsOfLength(n) ==
    IF n = 1 THEN {<<2>>}
    ELSE {Append(chain, Last(chain) + d) : chain \in ChainsOfLength(n - 1), d \in {0, 2}}

\* Targets: every logical time of such a chain, the times between them, and
\* times before the first and after the last.
FindTargets == {10 * i : i \in 0..(2 * MaxSec + 1)}

InitFind ==
    /\ networks = {"avail"}
    /\ primTs = RegularStream
    /\ \E chain \in ChainsOfLength(MaxSec) : slotOf = [c \in Networks |-> chain]
    /\ lcData = [c \in Networks |-> [n \in 0..MaxSec |-> 1]]
    /\ dbHeight = [c \in Networks |-> NoRow]
    /\ delay = 0
    /\ confirmationDepth = 0
    /\ funnelBlockGroupSize = 2
    /\ \E height \in 1..MaxSec : finalized = [c \in Networks |-> height]
    /\ chainData = <<>>
    /\ InitProgram

\* findBlockByTimestamp(api, targetTimestamp, chainName) on the client of "avail"
FindBlock(targetTimestamp) ==
    /\ obs' = [op |-> "findBlockByTimestamp", targetTimestamp |-> targetTimestamp,
               result |-> findBlockByTimestamp("avail", targetTimestamp)]
    /\ UNCHANGED <<run, envVars, finalized, stateVars, funnels, callVars, nextHeight, emitted,
                   bootstraps, finishedFrom>>

NextFind == \E targetTimestamp \in FindTargets : FindBlock(targetTimestamp)

SpecFind == InitFind /\ [][NextFind]_vars

\* ------------------------------------------------ getSubmittedData alone

\* Answers of the light client that repeat every four blocks: each of the
\* four is not 200 (-1), or 200 with no, one or two data transactions.
LcAnswers ==
    {[n \in 0..MaxSec |-> p[(n % 4) + 1]] : p \in [1..4 -> (0 - 1)..2]}

InitSubmitted ==
    /\ networks = {"avail"}
    /\ primTs = RegularStream
    /\ slotOf = [c \in Networks |-> [n \in 1..MaxSec |-> 2 * n - 1]]
    /\ \E answers \in LcAnswers : lcData = [c \in Networks |-> answers]
    /\ dbHeight = [c \in Networks |-> NoRow]
    /\ delay = 0
    /\ confirmationDepth = 0
    /\ funnelBlockGroupSize = 2
    /\ finalized = [c \in Networks |-> FirstFinalized]
    /\ chainData = <<>>
    /\ InitProgram

\* getSubmittedData(lc, from, to, network), called once
GetSubmittedData(c, from, to) ==
    /\ obs.op = "none"
    /\ obs' = [op |-> "getSubmittedData", net |-> c, from |-> from, to |-> to,
               result |-> getSubmittedData(c, from, to)]
    /\ UNCHANGED <<run, envVars, finalized, stateVars, funnels, callVars, nextHeight, emitted,
                   bootstraps, finishedFrom>>

NextSubmitted ==
    \E c \in Networks, from \in 1..(FirstFinalized + 1), to \in 0..(FirstFinalized + 1) :
        GetSubmittedData(c, from, to)

SpecSubmitted == InitSubmitted /\ [][NextSubmitted]_vars

\* ------------------------------------------------------------------ claims

\* Block b is one of the blocks of the sequence bs.
BlockIn(b, bs) == \E j \in 1..Len(bs) : bs[j].blockNumber = b.blockNumber

\* The last operation was a readData, which has returned.
ReadDataDone == obs.op = "readData" /\ obs.done

AllIn(ds, es) == \A i \in 1..Len(ds) : \E j \in 1..Len(es) : es[j] = ds[i]

\* C3: the merge of readData.  After the fetched records are remapped to
\* primary block numbers, every primary block of the batch ends with the
\* extension datums of every fetched record whose mapped block number is its
\* blockNumber, also when two or more secondary blocks map to one primary block.
C3_MergeKeepsEveryRecord ==
    ReadDataDone =>
        \A j \in 1..Len(obs.batch), i \in 1..Len(obs.remapped) :
            obs.remapped[i].blockNumber = obs.batch[j].blockNumber =>
                AllIn(obs.remapped[i].extensionDatums, obs.batch[j].extensionDatums)

\* The headers 1..H of "avail" have non-decreasing logical times.
SortedHeaders ==
    \A m, n \in 1..finalized["avail"] :
        m <= n => LogicalTime(slotOf["avail"][m]) <= LogicalTime(slotOf["avail"][n])

\* The blocks of 1..H whose logical time exceeds the target.
Exceeding(targetTimestamp) ==
    {n \in 1..finalized["avail"] : LogicalTime(slotOf["avail"][n]) > targetTimestamp}

EndToEnd ==
    /\ StartHeight = 10
    /\ delay = 0
    /\ \A n \in 10..12 : n \in DOMAIN primTs /\ primTs[n] = 100 + 20 * (n - 10)
    /\ \A n \in 5..8 : LogicalTime(slotOf["avail"][n]) = 90 + 20 * (n - 5)

\* Block b carries extension data of block bn of the secondary chain.
Carries(b, bn) ==
    \E i \in 1..Len(b.extensionDatums) :
        b.extensionDatums[i].network = "avail" /\ b.extensionDatums[i].blockNumber = bn

\* C5 as claimed: in the end-to-end scenario the data the light client serves
\* for secondary block 6 is attached to primary block 10 and to no other
\* primary block.
C5_Block6OnBlock10 ==
    EndToEnd =>
        \A i \in 1..Len(emitted) :
            /\ Carries(emitted[i], 6) => emitted[i].blockNumber = 10
            /\ (emitted[i].blockNumber = 10 /\ lcData["avail"][6] > 0) => Carries(emitted[i], 6)

\* C5 as amended: in the end-to-end scenario the data of secondary block 6
\* (logical time 110) is attached to primary block 11, the first primary block
\* whose timestamp (120) is not before it, and to no other primary block; the
\* data attached to primary block 10 is that of secondary block 5 (time 90).
C5_Block6OnBlock11 ==
    EndToEnd =>
        \A i \in 1..Len(emitted) :
            /\ Carries(emitted[i], 6) => emitted[i].blockNumber = 11
            /\ Carries(emitted[i], 5) => emitted[i].blockNumber = 10

\* C5 witness: in the scenario readData returned primary block 10 with the data
\* of secondary block 5 and primary block 11 with the data of secondary block 6.
C5_Witness ==
    /\ EndToEnd
    /\ \E i, j \in 1..Len(emitted) :
          /\ emitted[i].blockNumber = 10 /\ Carries(emitted[i], 5)
          /\ emitted[j].blockNumber = 11 /\ Carries(emitted[j], 6)

\* The last operation was a readPresyncData whose args hold an entry for the
\* funnel's network.
PresyncCall == obs.op = "readPresyncData" /\ obs.hasArg

\* C6: readPresyncData with requested range [from, to] and mapped starting
\* height S.  If from >= S the call answers FUNNEL_PRESYNC_FINISHED and asks
\* the light client for nothing; if from < S it asks only for blocks of
\* max(from, 0)..min(to, S - 1), and every record it returns has its blockNumber
\* in that range and carries the name of the network.
C6_PresyncClamped ==
    PresyncCall =>
        IF obs.from >= startingBlockHeight
        THEN obs.result = "finished" /\ obs.asked = {}
        ELSE LET range == Max(obs.from, 0)..Min(obs.to, startingBlockHeight - 1)
             IN  /\ obs.result # "finished"
                 /\ obs.asked \subseteq range
                 /\ \A i \in 1..Len(obs.records) :
                       /\ obs.records[i].blockNumber \in range
                       /\ obs.records[i].network = obs.net

\* C6 witness: a call whose range starts below 0 and ends at or after the
\* starting height returned records, the last of them for the block before
\* the starting height.
C6_Witness ==
    /\ PresyncCall
    /\ obs.from < 0
    /\ obs.to >= startingBlockHeight
    /\ obs.result = "data"
    /\ obs.records # <<>>
    /\ Last(obs.records).blockNumber = startingBlockHeight - 1

\* A step of recoverState.
RecoverStateStep == obs'.op = "recoverState" /\ finalized' = finalized /\ pc = "idle"

\* C7: the bootstrap runs at most once.  Over all networks the bootstrap of
\* recoverState has run at most once, and a recoverState call that finds the
\* state initialized leaves startingBlockHeight, lastBlock, lastMaxSlot,
\* bufferedChainData and timestampToBlockNumber as they were and runs no
\* bootstrap.
C7_BootstrapOnce ==
    /\ [](bootstraps["avail"] + bootstraps["avail2"] <= 1)
    /\ [][(RecoverStateStep /\ initialized) =>
             UNCHANGED <<startingBlockHeight, lastBlock, lastMaxSlot, bufferedChainData,
                         timestampToBlockNumber, bootstraps>>]_vars

\* C7 witness: recoverState was called again, on a state whose cursor is set
\* and whose buffer and index hold entries, and ran no bootstrap.
C7_Witness ==
    /\ obs.op = "recoverState"
    /\ ~obs.bootstrapped
    /\ lastBlock # NoBlock
    /\ bufferedChainData # <<>>
    /\ timestampToBlockNumber # <<>>

\* C8: the state store is keyed by secondary network.  Every network a funnel
\* was recovered for has a state that its own bootstrap made, with its own
\* client, and a readData call of a funnel works on the state of its own
\* network.
C8_KeyedByNetwork ==
    /\ \A c \in funnels : bootstraps[c] = 1
    /\ ReadDataDone => api = obs.net

\* The extension data of a block, none when the field is absent.
DatumsOf(b) == IF HasDatums(b) THEN b.extensionDatums ELSE <<>>

\* The first record of cdeData with the block number bn is record j.
FirstRecord(cdeData, bn, j) ==
    /\ cdeData[j].blockNumber = bn
    /\ \A k \in 1..(j - 1) : cdeData[k].blockNumber # bn

\* C9: composeChainData returns the blocks of its input in the same order; a
\* block no record has the number of is returned unchanged; a block merged
\* with a non-empty record ends with its former extension data (nothing when
\* they were absent or empty) followed by the data of the record, in order.
C9_ComposeConcatenates ==
    obs.op = "composeChainData" =>
        /\ Len(obs.result) = Len(obs.baseChainData)
        /\ \A i \in 1..Len(obs.baseChainData) :
              LET blockData == obs.baseChainData[i]
                  merged == obs.result[i]
              IN  /\ merged.blockNumber = blockData.blockNumber
                  /\ merged.timestamp = blockData.timestamp
                  /\ (\A j \in 1..Len(obs.cdeData) :
                         obs.cdeData[j].blockNumber # blockData.blockNumber)
                     => merged = blockData
                  /\ \A j \in 1..Len(obs.cdeData) :
                         (/\ FirstRecord(obs.cdeData, blockData.blockNumber, j)
                          /\ obs.cdeData[j].extensionDatums # <<>>)
                         => /\ HasDatums(merged)
                            /\ merged.extensionDatums =
                                   DatumsOf(blockData) \o obs.cdeData[j].extensionDatums

\* C9 witness: of two blocks, the first had no extensionDatums and the second
\* had some, and both were merged with a non-empty record.
C9_Witness ==
    /\ obs.op = "composeChainData"
    /\ Len(obs.baseChainData) = 2
    /\ ~HasDatums(obs.baseChainData[1])
    /\ DatumsOf(obs.baseChainData[2]) # <<>>
    /\ HasDatums(obs.result[1])
    /\ Len(obs.result[1].extensionDatums) = 2
    /\ Len(obs.result[2].extensionDatums) = Len(obs.baseChainData[2].extensionDatums) + 2

\* C10 as claimed: once a readPresyncData call has answered
\* FUNNEL_PRESYNC_FINISHED for the network, every later call for the network
\* answers FUNNEL_PRESYNC_FINISHED and asks the light client for nothing.
C10_FinishedForGood ==
    (PresyncCall /\ finishedFrom[obs.net] # NoRow) =>
        obs.result = "finished" /\ obs.asked = {}

\* C10 as amended: once a readPresyncData call with lower bound f has answered
\* FUNNEL_PRESYNC_FINISHED for the network, every later call for the network
\* whose lower bound is f or more answers FUNNEL_PRESYNC_FINISHED and asks the
\* light client for nothing.
C10_FinishedFromThere ==
    (PresyncCall /\ finishedFrom[obs.net] # NoRow /\ obs.from >= finishedFrom[obs.net]) =>
        obs.result = "finished" /\ obs.asked = {}

\* C10 witness: after a call answered FINISHED, a call with a greater lower
\* bound answered FINISHED too.
C10_Witness ==
    /\ PresyncCall
    /\ finishedFrom[obs.net] # NoRow
    /\ obs.from > finishedFrom[obs.net]
    /\ obs.result = "finished"

\* The last operation raised an error.
Threw == "threw" \in DOMAIN obs

\* C11: a bootstrap that fails aborts the construction.  When getBlock,
\* createApi or findBlockByTimestamp fails in recoverState, the entry is in
\* the cache without a state (initialized() is false), no funnel exists, and
\* getState(), the first thing readData and readPresyncData of the network do,
\* throws; the failing call itself returns no funnel and changes no field of
\* the state.
C11_FailedBootstrap ==
    /\ []((obs.op = "recoverState" /\ Threw /\ obs.threw \in BootstrapSteps) =>
             (hasEntry /\ ~initialized /\ funnels = {} /\ GetStateThrows))
    /\ [][(obs'.op = "recoverState" /\ "threw" \in DOMAIN obs'
           /\ obs'.threw \in BootstrapSteps /\ finalized' = finalized) =>
             UNCHANGED <<initialized, api, startingBlockHeight, lastBlock, lastMaxSlot,
                         bufferedChainData, timestampToBlockNumber, latestBlock,
                         funnels>>]_vars

\* C11 witness: findBlockByTimestamp failed in the bootstrap and left an entry
\* without a state.
C11_Witness ==
    /\ obs.op = "recoverState"
    /\ Threw
    /\ obs.threw = "findBlockByTimestamp"
    /\ hasEntry
    /\ ~initialized

\* A call of readData, of readPresyncData with an entry for the network, or of
\* the head refresh begins in this step.
StateAccessed ==
    /\ pc = "idle"
    /\ obs' # obs
    /\ \/ obs'.op \in {"readData", "updateLatestBlock"}
       \/ obs'.op = "readPresyncData" /\ obs'.hasArg

\* C12: the state is accessed before the bootstrap.  readData, readPresyncData
\* with an entry for the network, and the head refresh, called while the cache
\* has no entry or an entry without a state, raise an error, return nothing
\* and leave the cache as it was; latestBlock() called while the state holds no
\* latest block raises an error.
C12_UninitializedIsFatal ==
    /\ [][(StateAccessed /\ (~hasEntry \/ ~initialized)) =>
             ("threw" \in DOMAIN obs' /\ UNCHANGED <<stateVars, emitted, pc>>)]_vars
    /\ [][(pc = "idle" /\ obs' # obs /\ obs'.op = "latestBlock" /\ latestBlock = NoHeader) =>
             ("threw" \in DOMAIN obs' /\ UNCHANGED <<stateVars, emitted, pc>>)]_vars

\* C12 witness: readData was called on a cache whose entry has no state, by a
\* funnel made before the cache was emptied, and raised an error.
C12_Witness ==
    /\ obs.op = "readData"
    /\ Threw
    /\ hasEntry
    /\ ~initialized
    /\ funnels # {}

\* The slots of the secondary chain are strictly increasing.
StrictSlots == \A n \in 1..(MaxSec - 1) : slotOf["avail"][n] < slotOf["avail"][n + 1]

\* The timestamps of the primary chain are non-decreasing.
PrimSorted == \A n \in (StartHeight - 1)..(LastPrim - 1) : primTs[n] <= primTs[n + 1]

\* The logical time of secondary block n.
TimeOf(n) == LogicalTime(slotOf["avail"][n])

\* The first primary block of the stream whose delayed timestamp is >= the
\* logical time of secondary block n.
FirstPrimary(n) ==
    CHOOSE p \in StartHeight..LastPrim :
        /\ applyDelay(primTs[p]) >= TimeOf(n)
        /\ \A q \in StartHeight..(p - 1) : applyDelay(primTs[q]) < TimeOf(n)

\* How many times block b carries datum d.
Copies(b, d) == Cardinality({k \in 1..Len(b.extensionDatums) : b.extensionDatums[k] = d})

\* C13: exactly-once correlation.  With strictly increasing secondary slots and
\* non-decreasing primary timestamps, between two readData calls every
\* secondary block after the first resume cursor that has data and whose
\* logical time is <= the delayed timestamp of some emitted primary block has
\* each of its datums exactly once on the first primary block whose delayed
\* timestamp is >= its logical time, and on no other emitted block.
C13_ExactlyOnce ==
    (StrictSlots /\ PrimSorted /\ pc = "idle" /\ run.cursor # NoBlock) =>
        \A n \in (run.cursor + 1)..MaxSec :
            (/\ lcData["avail"][n] > 0
             /\ \E j \in 1..Len(emitted) : TimeOf(n) <= applyDelay(emitted[j].timestamp))
            => \A i \in 1..lcData["avail"][n], j \in 1..Len(emitted) :
                   Copies(emitted[j], Datum("avail", n, i)) =
                       IF emitted[j].blockNumber = FirstPrimary(n) THEN 1 ELSE 0

\* The blocks of the sequence bs are in ascending order of timestamp.
SortedBatch(bs) == \A i \in 1..(Len(bs) - 1) : bs[i].timestamp <= bs[i + 1].timestamp

\* The entries of the index are in ascending order of logical time.
SortedIndex(index) == \A i \in 1..(Len(index) - 1) : index[i][1] <= index[i + 1][1]

\* The positions of the blocks of bs whose delayed timestamp is >= t.
NotBefore(bs, t) == {j \in 1..Len(bs) : applyDelay(bs[j].timestamp) >= t}

\* C14: the mapping of readData.  With the batch in ascending order of
\* timestamp and the index in ascending order of time, every entry (t, n) of
\* the index with t <= the delayed timestamp of the last block of the batch is
\* mapped to the number of the first block of the batch whose delayed timestamp
\* is >= t, and an entry whose t is greater than every delayed timestamp of the
\* batch has no mapping.
C14_MapsToFirstNotBefore ==
    (ReadDataDone /\ obs.index # <<>> /\ SortedBatch(obs.batch) /\ SortedIndex(obs.index)) =>
        \A i \in 1..Len(obs.index) :
            LET t == obs.index[i][1]
                n == obs.index[i][2]
                later == NotBefore(obs.batch, t)
            IN  IF t <= applyDelay(Last(obs.batch).timestamp)
                THEN /\ n \in DOMAIN obs.mapping
                     /\ \E j \in later :
                           /\ \A k \in later : j <= k
                           /\ obs.mapping[n] = obs.batch[j].blockNumber
                ELSE later = {} => n \notin DOMAIN obs.mapping

\* C14 witness: a round mapped two entries of the index to the two blocks of
\* its batch and left an entry after the batch without a mapping.
C14_Witness ==
    /\ ReadDataDone
    /\ Len(obs.batch) = 2
    /\ SortedBatch(obs.batch)
    /\ \E i, j, k \in 1..Len(obs.index) :
          /\ obs.index[i][2] \in DOMAIN obs.mapping
          /\ obs.index[j][2] \in DOMAIN obs.mapping
          /\ obs.mapping[obs.index[i][2]] = obs.batch[1].blockNumber
          /\ obs.mapping[obs.index[j][2]] = obs.batch[2].blockNumber
          /\ obs.index[k][2] \notin DOMAIN obs.mapping

\* The maximum delayed timestamp of the blocks of the batch bs.
MaxDelayed(bs) ==
    CHOOSE t \in {applyDelay(bs[j].timestamp) : j \in 1..Len(bs)} :
        \A j \in 1..Len(bs) : applyDelay(bs[j].timestamp) <= t

\* The secondary blocks of the index whose time is after `low` and not after
\* `high`.
Window(index, low, high) ==
    {index[i][2] : i \in {k \in 1..Len(index) : low < index[k][1] /\ index[k][1] <= high}}

FetchedNumbers == {run.fetched[i] : i \in 1..Len(run.fetched)}

LiveGroupSizes == {1} \cup {config.funnelBlockGroupSize : config \in Configs}

\* The runs checked for progress: the regular primary chain, a secondary chain
\* with increasing slots, no persisted height, and no call that fails.
InitLive ==
    /\ networks = {"avail"}
    /\ primTs = RegularStream
    /\ \E chain \in {ch \in SecChains : \A n \in 1..(MaxSec - 1) : ch[n] < ch[n + 1]} :
          slotOf = [c \in Networks |-> chain]
    /\ lcData = [c \in Networks |-> [n \in 0..MaxSec |-> 1]]
    /\ dbHeight = [c \in Networks |-> NoRow]
    /\ delay \in {config.delay : config \in Configs}
    /\ confirmationDepth \in {config.confirmationDepth : config \in Configs}
    /\ funnelBlockGroupSize \in LiveGroupSizes
    /\ finalized = [c \in Networks |-> FirstFinalized]
    /\ chainData = <<>>
    /\ InitProgram

\* A turn of the header loop of readData changes the state: it fetches a
\* header, or it reaches the head and goes to wait.  A turn that fetches
\* nothing below the head leaves every variable as it was.
LoopTurnChanges ==
    /\ pc = "loop"
    /\ LET to == Min(latestBlock.number, lastBlock + funnelBlockGroupSize)
           availHeaders == getMultipleHeaderData(api, lastBlock + 1, to)
       IN  \/ availHeaders # <<>>
           \/ to = latestBlock.number

\* The secondary head is finalized again and again, and a call that has begun
\* goes on: the loop of readData takes its next turn, and so does the wait.
\* The condition on the loop is WF_vars(FetchChunk), written with the state
\* predicate LoopTurnChanges for ENABLED <<FetchChunk>>_vars.
Fairness ==
    /\ WF_vars(\E c \in Networks : Finalize(c))
    /\ ([]<>(~LoopTurnChanges) \/ []<><<FetchChunk>>_vars)
    /\ WF_vars(WaitPoll)

SpecLive == InitLive /\ [][Next]_vars /\ Fairness

\* A header that ends the loop of the round in progress can be fetched before
\* the secondary chain of the model ends: a block after lastBlock and below
\* the last confirmation-delayed head whose logical time is at least maxSlot.
ExitFetchable ==
    \E n \in (lastBlock + 1)..(MaxSec - confirmationDepth - 1) :
        n >= 1 /\ LogicalTime(slotOf[api][n]) >= applyDelay(Last(chainData).timestamp)

\* C17: readData returns.  For every group size >= 1, with the secondary head
\* advancing and no call failing, a round of readData that is in the header
\* loop with a batch, and whose closing header the chain will offer, leaves
\* the loop and returns.
C17_ReadDataReturns == (pc = "loop" /\ ExitFetchable) ~> (pc = "idle")

\* C18: the chunks are bounded and leave no gap.  The numbers of the headers
\* fetched in a run, over all chunks and rounds, are the consecutive block
\* numbers after the first resume cursor, each once, and lastBlock is the last
\* of them; a chunk starts at lastBlock + 1 and holds at most
\* funnelBlockGroupSize headers.
C18_ChunksGapFree ==
    /\ [](/\ \A i \in 1..Len(run.fetched) : run.fetched[i] = run.cursor + i
          /\ run.fetched # <<>> => lastBlock = Last(run.fetched))
    /\ [][Len(run.fetched') > Len(run.fetched) =>
             /\ run.fetched'[Len(run.fetched) + 1] = lastBlock + 1
             /\ Len(run.fetched') - Len(run.fetched) <= funnelBlockGroupSize
             /\ lastBlock' = Last(run.fetched')]_vars

\* Two rounds of readData have fetched headers, the later one in two chunks.
C18_Witness ==
    /\ ReadDataDone
    /\ obs.batch # <<>>
    /\ Len(obs.headers) > funnelBlockGroupSize - 1
    /\ Len(run.fetched) > Len(obs.headers)

\* A step that begins a round of readData with a batch while lastBlock is
\* unset (undefined or 0).
DeterminesCursor == pc = "idle" /\ pc' = "loop" /\ (lastBlock = NoBlock \/ lastBlock = 0)

\* The number of finalized secondary blocks whose logical time is not after
\* the delayed timestamp of the primary block before block number bn.
BlocksNotAfter(bn) ==
    Cardinality({n \in 1..finalized[api] :
                    LogicalTime(slotOf[api][n]) <= applyDelay(primTs[bn - 1])})

\* C19 as stated: an unset lastBlock is set to the persisted height when one
\* is recorded and is at least startingBlockHeight - 1, and in every other
\* case to the bootstrap value of recoverState (startingBlockHeight); a
\* positive lastBlock is not determined again.
C19_FallsBackToBootstrap ==
    [][/\ DeterminesCursor =>
              lastBlock' = IF dbHeight[self'] # NoRow
                              /\ dbHeight[self'] >= startingBlockHeight - 1
                           THEN dbHeight[self']
                           ELSE startingBlockHeight
       /\ (pc = "idle" /\ pc' = "loop" /\ lastBlock > 0) => lastBlock' = lastBlock]_vars

\* C19: an unset lastBlock is set, when a height is persisted for the
\* network, to the larger of that height and startingBlockHeight - 1; when
\* none is persisted, to the number of finalized secondary blocks whose logical
\* time is not after the delayed timestamp of the primary block before the
\* first block of the batch.  A positive lastBlock is not determined again.
C19_ResumeCursor ==
    [][/\ DeterminesCursor =>
              lastBlock' = IF dbHeight[self'] # NoRow
                           THEN Max(dbHeight[self'], startingBlockHeight - 1)
                           ELSE BlocksNotAfter(chainData'[1].blockNumber)
       /\ (pc = "idle" /\ pc' = "loop" /\ lastBlock > 0) => lastBlock' = lastBlock]_vars

\* A round has set lastBlock without a persisted height, below the bootstrap
\* value, and has not fetched a header yet.
C19_Witness ==
    /\ obs.op = "readData"
    /\ obs.determined
    /\ pc = "loop"
    /\ headers = <<>>
    /\ dbHeight[self] = NoRow
    /\ lastBlock > 0
    /\ lastBlock < startingBlockHeight - 1

\* C20: lastBlock only increases.  Once determined, lastBlock is never
\* smaller after a step than before it, over readData, readPresyncData and
\* recoverState, whether a round returns data, returns early or fails, and
\* also when lastBlock was determined as 0 and is determined again.
C20_LastBlockMonotone == [][lastBlock # NoBlock => lastBlock' >= lastBlock]_vars

\* C20 witness: a round of readData failed after its loop had advanced
\* lastBlock past the first resume cursor.
C20_Witness ==
    /\ obs.op = "readData"
    /\ Threw
    /\ pc = "idle"
    /\ lastBlock > run.cursor
    /\ run.cursor # NoBlock

\* The pairs of the headers hs, as readData appends them to the index.
PairsOf(hs) == [i \in 1..Len(hs) |-> <<LogicalTime(hs[i].slot), hs[i].number>>]

\* The sequence t is what is left of the sequence s after removing some pairs
\* from its head.
IsSuffix(t, s) == \E d \in 0..Len(s) : t = SubSeq(s, d + 1, Len(s))

\* C21: the index stays sorted.  With secondary slots non-decreasing in the
\* block number, timestampToBlockNumber is always ascending by logical time
\* and by block number; a step that changes it appends the pairs of the
\* round's headers at the tail and removes pairs from the head only.
C21_IndexSorted ==
    /\ [](\A i \in 1..(Len(timestampToBlockNumber) - 1) :
              /\ timestampToBlockNumber[i][1] <= timestampToBlockNumber[i + 1][1]
              /\ timestampToBlockNumber[i][2] < timestampToBlockNumber[i + 1][2])
    /\ [][timestampToBlockNumber' # timestampToBlockNumber =>
              IsSuffix(timestampToBlockNumber',
                       timestampToBlockNumber \o PairsOf(obs'.headers))]_vars

\* C21 witness: a round appended the pairs of its headers to an index that
\* held a pair already, removed a pair from the head, and left two pairs.
C21_Witness ==
    /\ ReadDataDone
    /\ obs.headers # <<>>
    /\ Len(timestampToBlockNumber) >= 2
    /\ timestampToBlockNumber[1][2] > run.cursor + 1
    /\ timestampToBlockNumber[1][2] < obs.headers[1].number

\* A round of readData has failed and no call has begun since.
ReadDataFailed == obs.op = "readData" /\ Threw

\* C22: no primary block is lost when a round fails.  After a round of
\* readData has failed past its filter, the blocks that passed the filter are
\* there for the next call: they are in bufferedChainData, or the buffer is
\* empty and the caller's retry of the same height reads them again; and the
\* blocks emitted are the blocks of the base stream, each once and in order.
C22_NothingLostOnFailure ==
    /\ ReadDataFailed =>
          \/ bufferedChainData = <<>>
          \/ \A j \in 1..Len(obs.batch) : BlockIn(obs.batch[j], bufferedChainData)
    /\ \A i \in 1..Len(emitted) : emitted[i].blockNumber = StartHeight + i - 1

\* C23: the cursor never runs ahead of the index.  When no call of readData
\* is in progress, whether the last one returned or failed in a later chunk,
\* every secondary block after the first resume cursor and up to lastBlock has
\* been appended to timestampToBlockNumber at some point of the run.
C23_CursorWithinIndex ==
    (pc = "idle" /\ run.cursor # NoBlock) =>
        \A n \in (run.cursor + 1)..lastBlock : n \in run.indexed

\* The confirmation-delayed head of the secondary chain when the finalized
\* head is block f.
DelayedHead(f) == Max(f - confirmationDepth, 1)

\* C24: the confirmation depth is respected in sync.  While readData is in
\* its header loop, the head it holds is a confirmation-delayed head seen by a
\* head refresh, finalizedHeight - confirmationDepth floored at 1; no header
\* fetched by a turn of the loop and no block asked of getSubmittedData has a
\* number above that head.
C24_ConfirmationDepth ==
    /\ [](pc \in {"loop", "wait"} =>
             \E f \in FirstFinalized..finalized[api] : latestBlock.number = DelayedHead(f))
    /\ [][pc = "loop" =>
             /\ \A i \in (Len(run.fetched) + 1)..Len(run.fetched') :
                   run.fetched'[i] <= latestBlock.number
             /\ pc' = "idle" => \A n \in obs'.asked : n <= latestBlock.number]_vars

\* C24 witness: with a confirmation depth of 1 a round fetched the headers up
\* to the block before the delayed head and asked for submitted data.
C24_Witness ==
    /\ ReadDataDone
    /\ confirmationDepth = 1
    /\ obs.asked # {}
    /\ obs.headers # <<>>
    /\ Last(obs.headers).number + 1 = DelayedHead(finalized[api])

\* The records of the result of getSubmittedData for block n.
RecordsOf(n) == {i \in 1..Len(obs.result) : obs.result[i].blockNumber = n}

\* C25: getSubmittedData over the inclusive range [from, to].  A block of the
\* range answered with k > 0 data transactions has exactly one record, with k
\* datums in the order of the transactions, each tagged with the network; a
\* block answered not 200, or 200 with no transaction, has no record and does
\* not end the call; no other block has a record; and the records are in
\* ascending order of the block number.
C25_SubmittedData ==
    obs.op = "getSubmittedData" =>
        /\ \A n \in obs.from..obs.to :
              IF Response(obs.net, n) > 0
              THEN /\ Cardinality(RecordsOf(n)) = 1
                   /\ \A i \in RecordsOf(n) :
                         /\ Len(obs.result[i].extensionDatums) = Response(obs.net, n)
                         /\ \A t \in 1..Response(obs.net, n) :
                               obs.result[i].extensionDatums[t] = Datum(obs.net, n, t)
              ELSE RecordsOf(n) = {}
        /\ \A i \in 1..Len(obs.result) : obs.result[i].blockNumber \in obs.from..obs.to
        /\ \A i \in 1..(Len(obs.result) - 1) :
              obs.result[i].blockNumber < obs.result[i + 1].blockNumber

\* C25 witness: the range holds a block answered not 200, after it a block
\* with two transactions that has its record, and a block with none.
C25_Witness ==
    /\ obs.op = "getSubmittedData"
    /\ \E n \in obs.from..obs.to, m \in obs.from..obs.to, z \in obs.from..obs.to :
          /\ n < m
          /\ Response(obs.net, n) < 0
          /\ Response(obs.net, m) = 2
          /\ RecordsOf(m) # {}
          /\ Response(obs.net, z) = 0

\* A call of readData begins in this step and none of the blocks in the buffer
\* at its filter step passes the filter.
EmptyRound ==
    /\ pc = "idle"
    /\ finalized' = finalized
    /\ obs'.op = "readData"
    /\ \A j \in 1..Len(obs'.buffer) : applyDelay(obs'.buffer[j].timestamp) > obs'.headTime

\* C26: an empty round leaves the correlation untouched.  When no block of
\* the buffer passes the filter, readData returns an empty batch in the same
\* step, fetches no header and no submitted data, and leaves lastBlock,
\* lastMaxSlot, timestampToBlockNumber and the blocks of the buffer, in their
\* order, as they were at the filter step; the latest head is the refreshed
\* one.
C26_EmptyRound ==
    [][EmptyRound =>
          /\ pc' = "idle"
          /\ obs'.done
          /\ obs'.batch = <<>>
          /\ emitted' = emitted
          /\ obs'.headers = <<>>
          /\ obs'.asked = {}
          /\ obs'.fetched = <<>>
          /\ run' = run
          /\ UNCHANGED <<lastBlock, lastMaxSlot, timestampToBlockNumber>>
          /\ bufferedChainData' = obs'.buffer
          /\ bufferedChainData # <<>> => bufferedChainData' = bufferedChainData
          /\ latestBlock' = UpdatedLatestBlock(api)]_vars

\* C26 witness: a round with blocks in the buffer returned nothing, in a run
\* that has a resume cursor and an index.
C26_Witness ==
    /\ ReadDataDone
    /\ obs.batch = <<>>
    /\ obs.buffer # <<>>
    /\ bufferedChainData = obs.buffer
    /\ lastBlock # NoBlock
    /\ timestampToBlockNumber # <<>>

====
